---- MODULE Spec2Model ----
(***************************************************************************)
(* Skill repository, enablement store and router of the ai-skills         *)
(* extension (storage module, use-skills tool, edit-skill tool).          *)
(*                                                                         *)
(* Text is modelled as text: a string is a sequence of one-character      *)
(* strings, so that the document codec (template-string serialization,    *)
(* indexOf/substring/trim splitting, YAML reading of the front matter)    *)
(* and the JSON kept in LocalStorage are computed on characters, as the   *)
(* code computes them.                                                     *)
(***************************************************************************)
EXTENDS Integers, Sequences, FiniteSets, TLC

VARIABLES
    disk,          \* the filesystem: root path -> NoDir or the root's entries in readdir order
    localStorage,  \* LocalStorage: key -> NoItem or the stored string
    last,          \* the last completed write call: operation, arguments, result, state before it
    seen,          \* the last read call (findSkill, listSkills, getEnabledSkillObjects) made since that
                   \* write, and its result
    ops,           \* number of write calls made so far (bounded by MaxOps)
    router,        \* the use-skills tool invocation: its locals, calls of AI.ask, and what it returned
    codec,         \* input and output of the last codec round trip
    race           \* an updateSkill and a deleteSkill in flight together: where each is, what
                   \* its findSkill returned, and the order of the steps taken

vars == <<disk, localStorage, last, seen, ops, router, codec, race>>

(***************************************************************************)
(* Bounds of the model                                                     *)
(***************************************************************************)
MaxOps == 2

(***************************************************************************)
(* Local constants and array methods.                                      *)
(***************************************************************************)
\* const v = ...; F(v)
With(v, F(_)) == F(v)

\* Array.prototype.map, as the explicit tuple of the values
Map(F(_), xs) == [i \in 1..Len(xs) |-> F(xs[i])] \o <<>>

\* Array.prototype.includes
SeqIncludes(xs, x) == \E i \in 1..Len(xs) : xs[i] = x

\* an object given by a rule [k \in S |-> e], as the explicit table of its values
AsTable(f) == f @@ <<>>

\* the least index of a set of indices, 0 when there is none
MinOrZero(S) == IF S = {} THEN 0 ELSE CHOOSE x \in S : \A y \in S : x <= y

(***************************************************************************)
(* Strings (sequences of characters) and the JavaScript string functions   *)
(* the code uses.                                                          *)
(***************************************************************************)
LF == "\n"
SP == " "
DQ == "\""
SQ == "'"

IsSpace(c) == c \in {SP, LF}

\* String.prototype.startsWith
StartsWith(s, p) == Len(s) >= Len(p) /\ SubSeq(s, 1, Len(p)) = p

\* String.prototype.indexOf(p, from): 0-based position, -1 when absent
MatchAt(s, p, i) == \A j \in 1..Len(p) : s[i + j] = p[j]
IndexOf(s, p, from) ==
    IF \E i \in from..(Len(s) - Len(p)) : MatchAt(s, p, i)
    THEN CHOOSE i \in from..(Len(s) - Len(p)) :
            MatchAt(s, p, i) /\ \A j \in from..(i - 1) : ~MatchAt(s, p, j)
    ELSE -1

\* String.prototype.substring(a, b) with 0 <= a <= b, and substring(a)
Substring(s, a, b) == SubSeq(s, a + 1, b)
SubstringFrom(s, a) == SubSeq(s, a + 1, Len(s))

\* String.prototype.trim
Trim(s) ==
    IF \A i \in 1..Len(s) : IsSpace(s[i]) THEN <<>>
    ELSE IF ~IsSpace(s[1]) /\ ~IsSpace(s[Len(s)]) THEN s
    ELSE SubSeq(s,
                CHOOSE i \in 1..Len(s) : ~IsSpace(s[i]) /\ \A j \in 1..(i - 1) : IsSpace(s[j]),
                CHOOSE i \in 1..Len(s) : ~IsSpace(s[i]) /\ \A j \in (i + 1)..Len(s) : IsSpace(s[j]))

LowerLetters == <<"a","b","c","d","e","f","g","h","i","j","k","l","m",
                  "n","o","p","q","r","s","t","u","v","w","x","y","z">>
UpperLetters == <<"A","B","C","D","E","F","G","H","I","J","K","L","M",
                  "N","O","P","Q","R","S","T","U","V","W","X","Y","Z">>
Digits == {"0","1","2","3","4","5","6","7","8","9"}

IsLower(c) == \E i \in 1..26 : LowerLetters[i] = c
UpperChar(c) == IF IsLower(c) THEN UpperLetters[CHOOSE i \in 1..26 : LowerLetters[i] = c] ELSE c

\* String.prototype.toUpperCase
ToUpperCase(s) == Map(UpperChar, s)

\* Array.prototype.join
RECURSIVE Join(_, _)
Join(xs, sep) ==
    IF xs = <<>> THEN <<>>
    ELSE IF Len(xs) = 1 THEN xs[1]
    ELSE xs[1] \o sep \o Join(Tail(xs), sep)

\* String.prototype.split(c) for a one-character separator, from position start
RECURSIVE SplitFrom(_, _, _)
SplitFrom(s, c, start) ==
    With(IndexOf(s, <<c>>, start), LAMBDA i :
        IF i = -1 THEN <<SubstringFrom(s, start)>>
        ELSE <<Substring(s, start, i)>> \o SplitFrom(s, c, i + 1))
Split(s, c) == SplitFrom(s, c, 0)

\* the text between the first and the last character (quotes, brackets, braces)
Inner(p) == SubSeq(p, 2, Len(p) - 1)

\* a double-quoted string with no double quote inside
IsQuoted(p) == Len(p) >= 2 /\ p[1] = DQ /\ p[Len(p)] = DQ /\ IndexOf(Inner(p), <<DQ>>, 0) = -1

(***************************************************************************)
(* JavaScript values held in metadata objects.                             *)
(***************************************************************************)
Undefined == [t |-> "undefined", v |-> <<>>]
Null      == [t |-> "null", v |-> <<>>]
Str(s)    == [t |-> "string", v |-> s]
Num(s)    == [t |-> "number", v |-> s]     \* v: the decimal digits
Bool(b)   == [t |-> "boolean", v |-> IF b THEN <<"t","r","u","e">> ELSE <<"f","a","l","s","e">>]
Arr(xs)   == [t |-> "array", v |-> xs]     \* v: a list of strings
ErrValue  == [t |-> "error", v |-> <<>>]   \* no value: the parser throws

\* JavaScript truthiness ( !x is ~Truthy(x) )
Truthy(x) ==
    CASE x.t = "undefined" -> FALSE
      [] x.t = "null"      -> FALSE
      [] x.t = "string"    -> x.v # <<>>
      [] x.t = "number"    -> \E i \in 1..Len(x.v) : x.v[i] # "0"
      [] x.t = "boolean"   -> x.v = <<"t","r","u","e">>
      [] OTHER             -> TRUE

\* x === y
StrictEq(x, y) == x.t = y.t /\ x.v = y.v

\* `${x}`: the string a template literal makes of a value
ToStr(x) ==
    CASE x.t = "undefined" -> <<"u","n","d","e","f","i","n","e","d">>
      [] x.t = "null"      -> <<"n","u","l","l">>
      [] x.t = "array"     -> Join(x.v, <<",">>)
      [] OTHER             -> x.v

\* JSON.stringify of a string (the modelled strings hold no character that
\* JSON escapes) and of an array of strings
JsonString(s) == <<DQ>> \o s \o <<DQ>>
JsonStringifyArray(xs) == <<"[">> \o Join(Map(JsonString, xs), <<",">>) \o <<"]">>

\* JSON.stringify(x) as createSkill/updateSkill apply it to allowedTools
JsonStringify(x) ==
    CASE x.t = "array"  -> JsonStringifyArray(x.v)
      [] x.t = "string" -> JsonString(x.v)
      [] OTHER          -> ToStr(x)

\* An object: a function from its own keys (strings) to values.
EmptyObject == [k \in {} |-> Undefined]
Get(o, k) == IF k \in DOMAIN o THEN o[k] ELSE Undefined
\* { ...a, ...b }: every own key of b, also one holding undefined, overrides a's
Spread(a, b) ==
    AsTable([k \in DOMAIN a \cup DOMAIN b |-> IF k \in DOMAIN b THEN b[k] ELSE a[k]])

KeyName         == <<"n","a","m","e">>
KeyDescription  == <<"d","e","s","c","r","i","p","t","i","o","n">>
KeyAllowedKebab == <<"a","l","l","o","w","e","d","-","t","o","o","l","s">>
KeyAllowedTools == <<"a","l","l","o","w","e","d","T","o","o","l","s">>
KeyModel        == <<"m","o","d","e","l">>
KeyContent      == <<"c","o","n","t","e","n","t">>

(***************************************************************************)
(* YAML.parse on the YAML the documents of this model hold: a block        *)
(* mapping of one-line entries "key: value" at column 0, whose values are  *)
(* plain scalars, double-quoted scalars or flow sequences of double-quoted *)
(* strings; an empty text is the null document, one line with no key       *)
(* separator is a plain scalar document.                                   *)
(***************************************************************************)
YamlError  == [k |-> "error",  m |-> EmptyObject]
YamlNull   == [k |-> "null",   m |-> EmptyObject]
YamlScalar == [k |-> "scalar", m |-> EmptyObject]
YamlMap(m) == [k |-> "map",    m |-> m]

\* position (1-based) of the ": " or final ":" that ends an implicit key, 0 if none
RECURSIVE KeySepFrom(_, _)
KeySepFrom(line, i) ==
    IF i > Len(line) THEN 0
    ELSE IF line[i] = ":" /\ (i = Len(line) \/ line[i + 1] = SP) THEN i
    ELSE KeySepFrom(line, i + 1)

\* a value's text with a trailing " #comment" removed
StripComment(s) ==
    With(IndexOf(<<SP>> \o s, <<SP, "#">>, 0), LAMBDA i :
        IF i = -1 THEN s ELSE SubSeq(s, 1, i - 1))

\* the items of a flow sequence body: "a","b" -> the list, or an error
FlowItems(body) ==
    IF Trim(body) = <<>> THEN Arr(<<>>)
    ELSE With(Map(Trim, Split(body, ",")), LAMBDA items :
            IF \A i \in 1..Len(items) : IsQuoted(items[i])
            THEN Arr(Map(Inner, items))
            ELSE ErrValue)

\* the value of one mapping entry, from the text after the key separator
YamlValue(raw) ==
    With(Trim(StripComment(raw)), LAMBDA s :
        IF s = <<>> THEN Null
        ELSE IF s[1] = "[" THEN (IF s[Len(s)] = "]" THEN FlowItems(Inner(s)) ELSE ErrValue)
        ELSE IF s[1] = DQ THEN (IF IsQuoted(s) THEN Str(Inner(s)) ELSE ErrValue)
        ELSE IF KeySepFrom(s, 1) # 0 THEN ErrValue          \* nested mapping in a compact mapping
        ELSE IF s[1] = "-" /\ (Len(s) = 1 \/ s[2] = SP) THEN ErrValue   \* sequence after a key
        ELSE IF s[1] \in {SQ, "]", "{", "}", ",", "&", "!", "|", ">", "%", "@"} THEN ErrValue
        ELSE IF s \in {<<"n","u","l","l">>, <<"~">>} THEN Null
        ELSE IF s = <<"t","r","u","e">> THEN Bool(TRUE)
        ELSE IF s = <<"f","a","l","s","e">> THEN Bool(FALSE)
        ELSE IF \A i \in 1..Len(s) : s[i] \in Digits THEN Num(s)
        ELSE Str(s))

\* one line "key: value" -> its separator position, key, value and indentation
YamlEntry(line) ==
    With(KeySepFrom(line, 1), LAMBDA sep :
        IF sep = 0 THEN [sep |-> 0, key |-> <<>>, val |-> ErrValue, indent |-> FALSE]
        ELSE [sep |-> sep,
              key |-> Trim(Substring(line, 0, sep - 1)),
              val |-> YamlValue(SubstringFrom(line, sep)),
              indent |-> line[1] = SP])

\* the document, from the lines that are neither blank nor a comment
YamlParse(text) ==
    With(Map(YamlEntry, SelectSeq(Split(text, LF),
                                  LAMBDA l : Trim(l) # <<>> /\ Trim(l)[1] # "#")), LAMBDA entries :
        IF entries = <<>> THEN YamlNull
        ELSE IF Len(entries) = 1 /\ entries[1].sep = 0 THEN YamlScalar
        ELSE IF \E i \in 1..Len(entries) :
                    \/ entries[i].sep = 0              \* no value follows the key
                    \/ entries[i].indent               \* indentation: outside the modelled YAML
                    \/ entries[i].key = <<>>
                    \/ entries[i].val.t = "error"
                    \/ \E j \in 1..Len(entries) : j # i /\ entries[j].key = entries[i].key
             THEN YamlError
        ELSE YamlMap(AsTable([k \in {entries[i].key : i \in 1..Len(entries)} |->
                        entries[CHOOSE i \in 1..Len(entries) : entries[i].key = k].val])))

(***************************************************************************)
(* The metadata codec: parseSkillMarkdown and the document createSkill and *)
(* updateSkill write.                                                      *)
(***************************************************************************)
Delim == <<"-","-","-">>

\* key.replace(/-([a-z])/g, (_, letter) => letter.toUpperCase())
RECURSIVE CamelFrom(_, _)
CamelFrom(s, i) ==
    IF i > Len(s) THEN <<>>
    ELSE IF i < Len(s) /\ s[i] = "-" /\ IsLower(s[i + 1])
         THEN <<UpperChar(s[i + 1])>> \o CamelFrom(s, i + 2)
    ELSE <<s[i]>> \o CamelFrom(s, i + 1)

\* the for-in loop that adds every key's camelCase spelling to the same object
CamelCaseMetadata(m) ==
    With(AsTable([j \in DOMAIN m |-> CamelFrom(j, 1)]), LAMBDA camelKey :
        AsTable([k \in DOMAIN m \cup {camelKey[j] : j \in DOMAIN m} |->
                    IF \E j \in DOMAIN m : j # k /\ camelKey[j] = k
                    THEN m[CHOOSE j \in DOMAIN m : j # k /\ camelKey[j] = k]
                    ELSE m[k]]))

\* parseSkillMarkdown's null, and its { metadata, content }.  metadata is what
\* YAML.parse returned: a mapping (k = "map", with its keys in m), null for an
\* empty front matter (k = "null"; a for-in over null runs no iteration), or a
\* scalar (k = "scalar", an object with no key this module reads).
ParsedNull == [ok |-> FALSE, metadata |-> YamlNull, content |-> <<>>]
parseSkillMarkdown(content) ==
    IF ~StartsWith(content, Delim) THEN ParsedNull
    ELSE With(IndexOf(content, Delim, 3), LAMBDA frontmatterEnd :
         IF frontmatterEnd = -1 THEN ParsedNull
         ELSE With(YamlParse(Trim(Substring(content, 3, frontmatterEnd))), LAMBDA metadata :
              IF metadata.k = "error" THEN ParsedNull          \* catch: return null
              ELSE [ok       |-> TRUE,
                    metadata |-> IF metadata.k = "map"
                                 THEN YamlMap(CamelCaseMetadata(metadata.m))
                                 ELSE metadata,
                    content  |-> Trim(SubstringFrom(content, frontmatterEnd + 3))]))

\* metadata.allowedTools && metadata.allowedTools.length > 0
HasAllowedTools(x) == x.t \in {"array", "string"} /\ x.v # <<>>

\* the SKILL.md text createSkill and updateSkill build from the four values
\* and the body
SkillDocument(name, description, allowedTools, model, content) ==
    Delim \o <<LF>> \o KeyName \o <<":", SP>> \o ToStr(name)
          \o <<LF>> \o KeyDescription \o <<":", SP>> \o ToStr(description)
          \o (IF HasAllowedTools(allowedTools)
              THEN <<LF>> \o KeyAllowedKebab \o <<":", SP>> \o JsonStringify(allowedTools)
              ELSE <<>>)
          \o (IF Truthy(model) THEN <<LF>> \o KeyModel \o <<":", SP>> \o ToStr(model) ELSE <<>>)
          \o <<LF>> \o Delim \o <<LF, LF>>
          \o content

(***************************************************************************)
(* LocalStorage and the JSON kept in it.                                   *)
(***************************************************************************)
NoItem     == [present |-> FALSE, text |-> <<>>]
Item(text) == [present |-> TRUE, text |-> text]

\* if (item): an absent item is undefined, an empty string is falsy
ItemTruthy(item) == item.present /\ item.text # <<>>

KeyPath  == <<"p","a","t","h">>
KeyLabel == <<"l","a","b","e","l">>

\* a storage root: { path, label? }; label is Undefined or a string value
Folder(path, label) == [path |-> path, label |-> label]

\* JSON.stringify of the folder list: an undefined label is left out
JsonStringifyFolder(f) ==
    <<"{">> \o JsonString(KeyPath) \o <<":">> \o JsonString(f.path)
            \o (IF f.label.t = "string"
                THEN <<",">> \o JsonString(KeyLabel) \o <<":">> \o JsonString(f.label.v)
                ELSE <<>>)
            \o <<"}">>
JsonStringifyFolders(fs) == <<"[">> \o Join(Map(JsonStringifyFolder, fs), <<",">>) \o <<"]">>

\* JSON.parse of a stored string, on the JSON this model stores: an array of
\* strings, or an array of { "path": s, "label": s } objects (no string holds
\* a character JSON escapes, nor one of , : { } [ ]); a number, a literal or
\* a string is JSON that is no array; anything else makes JSON.parse throw.
JsonError == [k |-> "error", v |-> <<>>]
JsonOther == [k |-> "other", v |-> <<>>]
JsonArray(v) == [k |-> "array", v |-> v]

\* "key":"value" -> <<key, value>>, <<>> when it is not of that form
JsonField(text) ==
    With(Map(Trim, Split(text, ":")), LAMBDA parts :
        IF Len(parts) = 2 /\ IsQuoted(parts[1]) /\ IsQuoted(parts[2])
        THEN <<Inner(parts[1]), Inner(parts[2])>>
        ELSE <<>>)

\* {"path":"..","label":".."} -> the object's own keys and values; a repeated
\* key keeps its last value
JsonObject(t) ==
    IF Len(t) < 2 \/ t[1] # "{" \/ t[Len(t)] # "}" THEN ErrValue
    ELSE With(IF Trim(Inner(t)) = <<>> THEN <<>> ELSE Map(JsonField, Split(Inner(t), ",")),
              LAMBDA fields :
         IF \E i \in 1..Len(fields) : fields[i] = <<>> THEN ErrValue
         ELSE [t |-> "object",
               v |-> AsTable([k \in {fields[i][1] : i \in 1..Len(fields)} |->
                         Str(fields[CHOOSE i \in 1..Len(fields) :
                                 /\ fields[i][1] = k
                                 /\ \A j \in 1..Len(fields) : fields[j][1] = k => j <= i][2])])])

\* the top-level items of an array body: split at the commas outside { }
RECURSIVE JsonItemsFrom(_, _, _, _)
JsonItemsFrom(s, i, start, depth) ==
    IF i > Len(s) THEN <<SubSeq(s, start, Len(s))>>
    ELSE IF s[i] = "," /\ depth = 0
         THEN <<SubSeq(s, start, i - 1)>> \o JsonItemsFrom(s, i + 1, i + 1, 0)
    ELSE JsonItemsFrom(s, i + 1, start,
                       IF s[i] = "{" THEN depth + 1 ELSE IF s[i] = "}" THEN depth - 1 ELSE depth)

JsonItem(text) ==
    With(Trim(text), LAMBDA t : IF IsQuoted(t) THEN Str(Inner(t)) ELSE JsonObject(t))

JsonParse(text) ==
    With(Trim(text), LAMBDA t :
        IF t = <<>> THEN JsonError
        ELSE IF t[1] = "[" THEN
            (IF t[Len(t)] # "]" THEN JsonError
             ELSE IF Trim(Inner(t)) = <<>> THEN JsonArray(<<>>)
             ELSE With(Map(JsonItem, JsonItemsFrom(Inner(t), 1, 1, 0)), LAMBDA items :
                     IF \E i \in 1..Len(items) : items[i].t = "error" THEN JsonError
                     ELSE JsonArray(items)))
        ELSE IF IsQuoted(t) THEN JsonOther
        ELSE IF t[1] = "{" THEN (IF JsonObject(t).t = "error" THEN JsonError ELSE JsonOther)
        ELSE IF t \in {<<"n","u","l","l">>, <<"t","r","u","e">>, <<"f","a","l","s","e">>}
             THEN JsonOther
        ELSE IF \A i \in 1..Len(t) : t[i] \in Digits THEN JsonOther
        ELSE JsonError)

\* path.join(homeDir, ".claude", "skills") with HOME = /h
DefaultSkillsPath == <<"/","h","/",".","c","l","a","u","d","e","/","s","k","i","l","l","s">>

\* an element of the parsed folder array, as getSkillsFolders' callers read it
AsFolder(x) ==
    IF x.t = "object"
    THEN [path  |-> IF Get(x.v, KeyPath).t = "string" THEN Get(x.v, KeyPath).v ELSE <<>>,
          label |-> Get(x.v, KeyLabel)]
    ELSE [path |-> <<>>, label |-> Undefined]

getSkillsFolders(ls) ==
    With(ls.SKILLS_FOLDER_KEY, LAMBDA storedPaths :
        IF ItemTruthy(storedPaths)
        THEN With(JsonParse(storedPaths.text), LAMBDA parsed :
                CASE parsed.k = "array" -> Map(AsFolder, parsed.v)
                  [] parsed.k = "error" -> <<Folder(storedPaths.text, Undefined)>>
                  [] OTHER              -> <<Folder(DefaultSkillsPath, Undefined)>>)
        ELSE <<Folder(DefaultSkillsPath, Undefined)>>)

getSkillsFolderPaths(ls) == Map(LAMBDA f : f.path, getSkillsFolders(ls))

\* paths[0] || ""
getSkillsFolderPath(ls) ==
    With(getSkillsFolderPaths(ls), LAMBDA paths : IF paths = <<>> THEN <<>> ELSE paths[1])

(***************************************************************************)
(* The filesystem.  disk[path] says whether the directory at path exists   *)
(* and lists its entries in the order readdir returns them.  An entry is   *)
(* a file or a directory; a directory may hold SKILL.md (a text), a file   *)
(* named skill.md, and other files.                                        *)
(***************************************************************************)
NoFile     == [present |-> FALSE, text |-> <<>>]
File(text) == [present |-> TRUE, text |-> text]

NoDir        == [exists |-> FALSE, readable |-> TRUE, entries |-> <<>>]
Dir(entries) == [exists |-> TRUE, readable |-> TRUE, entries |-> entries]
\* a directory that fs.existsSync finds and fs.readdirSync cannot read (EACCES)
DirUnreadable == [exists |-> TRUE, readable |-> FALSE, entries |-> <<>>]

Entry(name, isDir, skillMd, lowerMd, others) ==
    [name |-> name, isDir |-> isDir, skillMd |-> skillMd, lowerMd |-> lowerMd, others |-> others]

LowerMdName == <<"s","k","i","l","l",".","m","d">>

\* the entries readdir returns for a storage root, none when
\* fs.existsSync(path) is false
RootEntries(d, path) == IF path \in DOMAIN d /\ d[path].exists THEN d[path].entries ELSE <<>>

\* what the scan makes of one entry of a root: "skip" (continue), "throw"
\* (parsed.metadata.name on a null metadata: the TypeError that the outer
\* try/catch turns into an empty result; also what a raising filesystem call
\* is), or "skill" with the ClaudeSkill record that is pushed
Skip  == [kind |-> "skip", skill |-> <<>>]
Throw == [kind |-> "throw", skill |-> <<>>]
ScanEntry(root, e) ==
    IF ~e.isDir THEN Skip
    ELSE IF ~e.skillMd.present THEN Skip
    ELSE With(parseSkillMarkdown(e.skillMd.text), LAMBDA parsed :
         IF ~parsed.ok THEN Skip
         ELSE IF parsed.metadata.k = "null" THEN Throw
         ELSE IF ~Truthy(Get(parsed.metadata.m, KeyName))
                 \/ ~Truthy(Get(parsed.metadata.m, KeyDescription))
              THEN Skip
         ELSE [kind  |-> "skill",
               skill |-> [name            |-> e.name,
                          path            |-> <<root, e.name>>,
                          metadata        |-> parsed.metadata.m,
                          content         |-> parsed.content,
                          supportingFiles |-> e.others \cup
                                              (IF e.lowerMd THEN {LowerMdName} ELSE {})]])

\* a faulty scan of a root: no existsSync test, so that readdirSync raises
\* on a root that does not exist
ScanRoot_NoExistsCheck(d, root) ==
    IF root \notin DOMAIN d \/ ~d[root].exists \/ ~d[root].readable THEN <<Throw>>
    ELSE Map(LAMBDA e : ScanEntry(root, e), RootEntries(d, root))
\* what the scan makes of one configured root: nothing when existsSync is
\* false (continue), a throw when readdirSync raises, else the scans of its
\* entries in readdir order
ScanRoot(d, root) ==
    IF root \notin DOMAIN d \/ ~d[root].exists THEN <<>>
    ELSE IF ~d[root].readable THEN <<Throw>>
    ELSE Map(LAMBDA e : ScanEntry(root, e), RootEntries(d, root))

RECURSIVE Flatten(_)
Flatten(seqs) == IF seqs = <<>> THEN <<>> ELSE seqs[1] \o Flatten(Tail(seqs))

\* the skills array returned after the scan of every root in the order of the
\* configured roots, entry by entry in readdir order: [] from the catch block
\* when the scan threw
getAllSkills(d, ls) ==
    With(Flatten(Map(LAMBDA root : ScanRoot(d, root), getSkillsFolderPaths(ls))), LAMBDA scans :
        IF \E i \in 1..Len(scans) : scans[i].kind = "throw" THEN <<>>
        ELSE Map(LAMBDA x : x.skill, SelectSeq(scans, LAMBDA x : x.kind = "skill")))

\* skills.find(...) || null : the index of the first match, 0 for null
FindIndex(skills, name) ==
    MinOrZero({i \in 1..Len(skills) :
                  skills[i].name = name \/ StrictEq(Get(skills[i].metadata, KeyName), Str(name))})

\* findSkill, given what its call of getAllSkills returned
findSkill(skills, name) ==
    With(FindIndex(skills, name), LAMBDA i :
        IF i = 0 THEN [found |-> FALSE, skill |-> <<>>] ELSE [found |-> TRUE, skill |-> skills[i]])
\* skill.path of what findSkill returned, <<>> for null
PathOf(found) == IF found.found THEN found.skill.path ELSE <<>>

(***************************************************************************)
(* Writes to the filesystem.                                               *)
(***************************************************************************)
EntryIndex(entries, name) == MinOrZero({i \in 1..Len(entries) : entries[i].name = name})

\* a faulty removal: everything up to and including position i goes
RemoveAt_Through(seq, i) == SubSeq(seq, i + 1, Len(seq))
\* the sequence without its element at position i
RemoveAt(seq, i) == SubSeq(seq, 1, i - 1) \o SubSeq(seq, i + 1, Len(seq))

\* fs.mkdirSync(skillPath, { recursive: true }) raises when the path is a file
MkdirThrows(d, root, name) ==
    With(EntryIndex(RootEntries(d, root), name), LAMBDA i :
        i # 0 /\ ~RootEntries(d, root)[i].isDir)

\* mkdirSync(recursive) then writeFileSync(SKILL.md): a missing root is made,
\* a new directory appears at position pos of the root's readdir order, an
\* existing directory keeps its place and its other files
MkdirAndWrite(d, root, name, text, pos) ==
    With(RootEntries(d, root), LAMBDA entries :
    With(EntryIndex(entries, name), LAMBDA i :
        [d EXCEPT ![root] = Dir(IF i = 0
                                THEN SubSeq(entries, 1, pos)
                                         \o <<Entry(name, TRUE, File(text), FALSE, {})>>
                                         \o SubSeq(entries, pos + 1, Len(entries))
                                ELSE [entries EXCEPT ![i].skillMd = File(text)])]))

\* the directory entry a skill's path names (0 when it is gone)
PathIndex(d, path) == EntryIndex(RootEntries(d, path[1]), path[2])

\* fs.readFileSync(skill.skillMdPath, "utf-8")
SkillMdText(d, path) == RootEntries(d, path[1])[PathIndex(d, path)].skillMd.text

\* fs.writeFileSync(skill.skillMdPath, text)
WriteSkillMd(d, path, text) ==
    [d EXCEPT ![path[1]].entries[PathIndex(d, path)].skillMd = File(text)]

\* fs.rmSync(skill.path, { recursive: true, force: true })
RemoveDir(d, path) ==
    With(PathIndex(d, path), LAMBDA i :
        IF i = 0 THEN d ELSE [d EXCEPT ![path[1]].entries = RemoveAt(d[path[1]].entries, i)])

(***************************************************************************)
(* createSkill, updateSkill, deleteSkill as functions of the state.        *)
(***************************************************************************)
\* folderPath || (await getSkillsFolderPath()); folderPath is Undefined or a string
CreateFolder(ls, folderPath) ==
    IF Truthy(folderPath) THEN folderPath.v ELSE getSkillsFolderPath(ls)

\* an updates object: a function from some of the keys description, content,
\* allowedTools, model to values.  The merged metadata of updateSkill:
MergedMetadata(skill, updates) == Spread(skill.metadata, updates)

\* updates.content ?? parsed.content
NewContent(updates, parsed) ==
    IF Get(updates, KeyContent).t \in {"undefined", "null"}
    THEN parsed.content ELSE ToStr(Get(updates, KeyContent))

\* the front matter and body updateSkill builds from the merged metadata
DocumentOf(metadata, content) ==
    SkillDocument(Get(metadata, KeyName), Get(metadata, KeyDescription),
                  Get(metadata, KeyAllowedTools), Get(metadata, KeyModel), content)

\* updateSkill: the result (null, or the merged record) and the disk after it;
\* skills is what getAllSkills returns to its findSkill
NotUpdated(d) == [ok |-> FALSE, skill |-> <<>>, disk |-> d]
updateSkill(d, skills, name, updates) ==
    With(findSkill(skills, name), LAMBDA found :
        IF ~found.found THEN NotUpdated(d)
        ELSE With(parseSkillMarkdown(SkillMdText(d, found.skill.path)), LAMBDA parsed :
             IF ~parsed.ok THEN NotUpdated(d)
             ELSE With(MergedMetadata(found.skill, updates), LAMBDA metadata :
                  With(NewContent(updates, parsed), LAMBDA content :
                      [ok    |-> TRUE,
                       skill |-> [found.skill EXCEPT !.metadata = metadata, !.content = content],
                       disk  |-> WriteSkillMd(d, found.skill.path,
                                              DocumentOf(metadata, content))]))))

\* a faulty deleteSkill: SKILL.md is unlinked and the directory stays
deleteSkill_Unlink(d, skills, name) ==
    With(findSkill(skills, name), LAMBDA found :
        IF ~found.found \/ PathIndex(d, found.skill.path) = 0 THEN [ok |-> found.found, disk |-> d]
        ELSE [ok |-> TRUE, disk |-> [d EXCEPT ![found.skill.path[1]].entries[
                                                   PathIndex(d, found.skill.path)].skillMd = NoFile]])
\* deleteSkill: its boolean result and the disk after it
deleteSkill(d, skills, name) ==
    With(findSkill(skills, name), LAMBDA found :
        IF ~found.found THEN [ok |-> FALSE, disk |-> d]
        ELSE [ok |-> TRUE, disk |-> RemoveDir(d, found.skill.path)])

(***************************************************************************)
(* The enablement store.                                                   *)
(***************************************************************************)
\* getEnabledSkills: the stored array of names, [] when absent or unparsable
\* (the store only ever holds what enableSkill and disableSkill wrote)
getEnabledSkills(ls) ==
    IF ItemTruthy(ls.ENABLED_SKILLS_KEY)
    THEN With(JsonParse(ls.ENABLED_SKILLS_KEY.text), LAMBDA parsed :
            IF parsed.k = "array" THEN Map(LAMBDA x : x.v, parsed.v) ELSE <<>>)
    ELSE <<>>

isSkillEnabled(ls, skillName) == SeqIncludes(getEnabledSkills(ls), skillName)

\* a faulty enableSkill: the name is appended without the includes test
EnableIn_NoCheck(ls, enabled, skillName) ==
    [ls EXCEPT !.ENABLED_SKILLS_KEY = Item(JsonStringifyArray(Append(enabled, skillName)))]
\* enableSkill: the store after it, given the enabled list it read
EnableIn(ls, enabled, skillName) ==
    IF ~SeqIncludes(enabled, skillName)
    THEN [ls EXCEPT !.ENABLED_SKILLS_KEY = Item(JsonStringifyArray(Append(enabled, skillName)))]
    ELSE ls
enableSkill(ls, skillName) == EnableIn(ls, getEnabledSkills(ls), skillName)

\* disableSkill: the store after it
disableSkill(ls, skillName) ==
    [ls EXCEPT !.ENABLED_SKILLS_KEY =
        Item(JsonStringifyArray(SelectSeq(getEnabledSkills(ls), LAMBDA name : name # skillName)))]

\* a faulty filter: every skill passes
FilterEnabled_All(skills, enabledNames) == skills
\* getEnabledSkillObjects: allSkills.filter(skill => enabledNames.includes(skill.name))
FilterEnabled(skills, enabledNames) ==
    SelectSeq(skills, LAMBDA skill : SeqIncludes(enabledNames, skill.name))
getEnabledSkillObjects(d, ls) == FilterEnabled(getAllSkills(d, ls), getEnabledSkills(ls))

\* getRoutingModel: saved || null
getRoutingModel(ls) ==
    IF ItemTruthy(ls.ROUTING_MODEL_KEY) THEN Str(ls.ROUTING_MODEL_KEY.text) ELSE Null
(***************************************************************************)
(* Values the state starts from and the inputs the calls draw.             *)
(***************************************************************************)
NameA == <<"a">>
NameB == <<"b">>
RootP == <<"/","p">>
RootQ == <<"/","q">>
Paths == {RootP, RootQ, DefaultSkillsPath}

NoCall == [op |-> "none", args |-> <<>>, result |-> <<>>, pre |-> <<>>]
NoSeen == [op |-> "none", name |-> <<>>, result |-> <<>>]
IdleRouter == [pc |-> "idle", routingModel |-> Null, enabledSkills |-> <<>>, aiCalls |-> 0,
               ai |-> [threw |-> FALSE, response |-> <<>>], output |-> [kind |-> "none"]]
NoCodec == [done |-> FALSE, name |-> <<>>, description |-> <<>>, allowedTools |-> Undefined,
            model |-> Undefined, body |-> <<>>, document |-> <<>>, parsed |-> ParsedNull]
\* no call in flight; a call in flight is "invoked" (suspended in the await
\* of its findSkill), "found" (findSkill has returned) and then "done"
NoRace == [name |-> <<>>, updates |-> EmptyObject, steps |-> <<>>,
           update |-> [pc |-> "idle", skills |-> <<>>, path |-> <<>>, result |-> "none",
                       document |-> <<>>],
           delete |-> [pc |-> "idle", skills |-> <<>>, path |-> <<>>, result |-> "none"]]

EmptyStorage == [SKILLS_FOLDER_KEY |-> NoItem, ENABLED_SKILLS_KEY |-> NoItem,
                 ROUTING_MODEL_KEY |-> NoItem]
EmptyDisk == [p \in Paths |-> NoDir]

(***************************************************************************)
(* The input validation of the create-skill tool: what a valid name,       *)
(* description and body are.                                               *)
(***************************************************************************)
MaxNameLength == 64
MaxDescriptionLength == 1024

\* /^[a-z0-9-]+$/.test(name)
MatchesNamePattern(name) ==
    name # <<>> /\ \A i \in 1..Len(name) : IsLower(name[i]) \/ name[i] \in Digits \/ name[i] = "-"

ValidCreateInput(name, description, content) ==
    /\ Trim(name) # <<>>
    /\ MatchesNamePattern(name)
    /\ Len(name) <= MaxNameLength
    /\ Trim(description) # <<>>
    /\ Len(description) <= MaxDescriptionLength
    /\ Trim(content) # <<>>

(***************************************************************************)
(* SpecCodec: the codec applied to bounded inputs.  Init draws a name, a   *)
(* description, an allowed-tools list, a model and a body; RoundTrip       *)
(* serializes them as createSkill does and parses the document.            *)
(***************************************************************************)
InitCodec ==
    /\ disk = EmptyDisk
    /\ localStorage = EmptyStorage
    /\ last = NoCall
    /\ seen = NoSeen
    /\ ops = 0
    /\ router = IdleRouter
    /\ race = NoRace
    /\ \E n  \in {NameA, <<"b","-","c">>, <<"a","-","-","-","b">>, <<"0">>},
          de \in {<<"d">>, <<"d","o",SP,"x">>, <<"u","s","e",":",SP,"x">>, <<"x",SP,"#","y">>},
          b  \in {<<"x">>, <<SP,"x">>, <<"x",LF,"y">>, <<"x","-","-","-","y">>},
          t  \in {Undefined, Arr(<<>>), Arr(<< <<"r">> >>), Arr(<< <<"r">>, <<"w">> >>)},
          m  \in {Undefined, Str(<<"m">>)} :
          codec = [NoCodec EXCEPT !.name = n, !.description = de, !.body = b,
                                  !.allowedTools = t, !.model = m]

RoundTrip ==
    /\ ~codec.done
    /\ \E document \in {SkillDocument(Str(codec.name), Str(codec.description),
                                      codec.allowedTools, codec.model, codec.body)} :
          codec' = [codec EXCEPT !.done = TRUE, !.document = document,
                                 !.parsed = parseSkillMarkdown(document)]
    /\ UNCHANGED <<disk, localStorage, last, seen, ops, router, race>>

SpecCodec == InitCodec /\ [][RoundTrip]_vars

\* the metadata the caller gave, as an object: optional fields that the
\* serializer leaves out (an empty list, no model) are absent
Equivalent(parsedMeta, name, description, allowedTools, model) ==
    /\ parsedMeta.k = "map"
    /\ StrictEq(Get(parsedMeta.m, KeyName), Str(name))
    /\ StrictEq(Get(parsedMeta.m, KeyDescription), Str(description))
    /\ StrictEq(Get(parsedMeta.m, KeyAllowedTools),
                IF HasAllowedTools(allowedTools) THEN allowedTools ELSE Undefined)
    /\ StrictEq(Get(parsedMeta.m, KeyModel), IF Truthy(model) THEN model ELSE Undefined)

\* C2: for any valid metadata and any body, parsing the document that
\* serialization produces yields an equivalent metadata object and the
\* identical body.
C2_RoundTrip ==
    (codec.done /\ ValidCreateInput(codec.name, codec.description, codec.body))
        => /\ codec.parsed.ok
           /\ Equivalent(codec.parsed.metadata, codec.name, codec.description,
                         codec.allowedTools, codec.model)
           /\ codec.parsed.content = codec.body

(***************************************************************************)
(* Documents and directories the disk may hold before any call.            *)
(***************************************************************************)
Desc1  == <<"d">>
Desc2  == <<"e">>
Body1  == <<"x">>
Body2  == <<"y">>

PlainDoc(name, description, body) ==
    SkillDocument(Str(name), Str(description), Undefined, Undefined, body)
FullDoc(name, description, body) ==
    SkillDocument(Str(name), Str(description), Arr(<< <<"r">> >>), Str(<<"m">>), body)
\* ---\n---\n\nx : an empty front matter
EmptyFrontmatterDoc == Delim \o <<LF>> \o Delim \o <<LF, LF>> \o Body1
\* ---\nname: <name>\n---\n\nx : no description
NoDescriptionDoc(name) ==
    Delim \o <<LF>> \o KeyName \o <<":", SP>> \o name \o <<LF>> \o Delim \o <<LF, LF>> \o Body1
SkillDir(name, text) == Entry(name, TRUE, File(text), FALSE, {})

TwoRoots == Item(JsonStringifyFolders(<<Folder(RootP, Undefined), Folder(RootQ, Str(<<"q">>))>>))

(***************************************************************************)
(* Spec: the repository's write operations (createSkill, updateSkill, the  *)
(* edit-skill tool, deleteSkill), each call run to completion, at most     *)
(* MaxOps calls, and its read operations (findSkill, listSkills).  last   *)
(* records the last write call: its arguments, its result and the state    *)
(* it started from; seen records the last read call made since.            *)
(***************************************************************************)
InitDisks ==
    LET onP(entries) == [EmptyDisk EXCEPT ![RootP] = Dir(entries)]
    IN  { \* directory a declares the name b, and comes before directory b
          onP(<<SkillDir(NameA, PlainDoc(NameB, Desc1, Body1)),
                SkillDir(NameB, PlainDoc(NameB, Desc2, Body2))>>),
          \* a skill with every optional field and a supporting file, and a plain
          \* file named b beside it
          onP(<<Entry(NameA, TRUE, File(FullDoc(NameA, Desc1, Body1)), FALSE,
                      {<<"n",".","t","x","t">>}),
                Entry(NameB, FALSE, NoFile, FALSE, {})>>),
          \* a directory whose document has an empty front matter, after a skill
          onP(<<SkillDir(NameA, PlainDoc(NameA, Desc1, Body1)),
                SkillDir(NameB, EmptyFrontmatterDoc)>>),
          \* a document under the lower-case file name only, a document with no
          \* description
          onP(<<Entry(NameA, TRUE, NoFile, TRUE, {}),
                SkillDir(NameB, NoDescriptionDoc(NameB))>>),
          \* a skill in each root
          [EmptyDisk EXCEPT ![RootP] = Dir(<<SkillDir(NameA, PlainDoc(NameA, Desc1, Body1))>>),
                            ![RootQ] = Dir(<<SkillDir(NameB, FullDoc(NameB, Desc1, Body1))>>)] }

Init ==
    /\ disk \in InitDisks
    /\ localStorage = [EmptyStorage EXCEPT !.SKILLS_FOLDER_KEY = TwoRoots]
    /\ last = NoCall
    /\ seen = NoSeen
    /\ ops = 0
    /\ router = IdleRouter
    /\ codec = NoCodec
    /\ race = NoRace

Names == {NameA, NameB}

\* the record of a call: pre is the state it started from
Call(op, args, result) ==
    [op |-> op, args |-> args, result |-> result,
     pre |-> [disk |-> disk, localStorage |-> localStorage]]

CreateInputs ==
    { [description |-> Desc1, content |-> Body1, allowedTools |-> Undefined, model |-> Undefined,
       folderPath |-> Undefined],
      [description |-> Desc2, content |-> Body2, allowedTools |-> Arr(<< <<"r">> >>),
       model |-> Str(<<"m">>), folderPath |-> Str(RootP)] }

\* the createSkill call before this one was given the same name and folder
\* and wrote its document
SameAsLastCreate(name, skillsFolder) ==
    /\ last.op = "createSkill" /\ last.result = "created"
    /\ last.args.name = name /\ last.args.root = skillsFolder

\* createSkill(name, description, content, allowedTools, model, folderPath)
CreateSkillCall ==
    /\ ops < MaxOps
    /\ \E in \in CreateInputs :
       \E skillsFolder \in {CreateFolder(localStorage, in.folderPath)} :
       \E name \in Names :
       \E args \in {[name |-> name, description |-> in.description, content |-> in.content,
                     allowedTools |-> in.allowedTools, model |-> in.model, root |-> skillsFolder,
                     again |-> SameAsLastCreate(name, skillsFolder)]} :
       \E text \in {SkillDocument(Str(name), Str(in.description), in.allowedTools,
                                  in.model, in.content)} :
            /\ skillsFolder \in Paths
            /\ IF MkdirThrows(disk, skillsFolder, name)
               THEN /\ disk' = disk
                    /\ last' = Call("createSkill", args, "threw")
               ELSE /\ \E pos \in 0..Len(RootEntries(disk, skillsFolder)) :
                          /\ (EntryIndex(RootEntries(disk, skillsFolder), name) # 0 => pos = 0)
                          /\ disk' = MkdirAndWrite(disk, skillsFolder, name, text, pos)
                    /\ last' = Call("createSkill", args, "created")
    /\ ops' = ops + 1
    /\ UNCHANGED <<localStorage, router, codec, race>>
    /\ seen' = NoSeen

\* the updates objects a direct caller of updateSkill passes
UpdateInputs ==
    { EmptyObject,
      KeyDescription :> Str(Desc2),
      (KeyContent :> Str(Body2)) @@ (KeyAllowedTools :> Arr(<< <<"w">> >>))
                                 @@ (KeyModel :> Str(<<"n">>)) }

\* updateSkill(name, updates)
UpdateSkillCall ==
    /\ ops < MaxOps
    /\ \E skills \in {getAllSkills(disk, localStorage)} :
       \E name \in Names, updates \in UpdateInputs :
       \E r \in {updateSkill(disk, skills, name, updates)} :
            /\ disk' = r.disk
            /\ last' = Call("updateSkill",
                            [name |-> name, supplied |-> DOMAIN updates,
                             path |-> PathOf(findSkill(skills, name))],
                            IF r.ok THEN "updated" ELSE "null")
    /\ ops' = ops + 1
    /\ UNCHANGED <<localStorage, router, codec, race>>
    /\ seen' = NoSeen

\* the optional inputs of the edit-skill tool: Undefined when not given
EditInputs ==
    { [name |-> n, description |-> x[1], content |-> x[2]] :
        n \in Names,
        x \in { <<Undefined, Str(Body2)>>, <<Str(Desc2), Undefined>>,
                <<Str(<<SP>>), Undefined>> } }
    \cup { [name |-> <<>>, description |-> Undefined, content |-> Undefined] }

\* a reply of the edit-skill tool that leaves the disk alone
EditReply(args, result) ==
    /\ disk' = disk
    /\ last' = Call("editSkill", args, result)

\* the edit-skill tool: validation, then updateSkill with both optional
\* inputs passed as properties of the updates object
EditToolCall ==
    /\ ops < MaxOps
    /\ \E skills \in {getAllSkills(disk, localStorage)} :
       \E input \in EditInputs :
       \E updates \in {(KeyDescription :> input.description) @@ (KeyContent :> input.content)} :
       \E args \in {[name |-> input.name,
                     supplied |-> {k \in DOMAIN updates : updates[k] # Undefined},
                     path |-> PathOf(findSkill(skills, input.name))]} :
            IF Trim(input.name) = <<>> THEN EditReply(args, "name-required")
            ELSE IF ~findSkill(skills, input.name).found THEN EditReply(args, "not-found")
            ELSE IF input.description # Undefined /\ Trim(input.description.v) = <<>>
                 THEN EditReply(args, "description-empty")
            ELSE IF input.description # Undefined
                    /\ Len(input.description.v) > MaxDescriptionLength
                 THEN EditReply(args, "description-too-long")
            ELSE IF input.content # Undefined /\ Trim(input.content.v) = <<>>
                 THEN EditReply(args, "content-empty")
            ELSE \E r \in {updateSkill(disk, skills, input.name, updates)} :
                    /\ disk' = r.disk
                    /\ last' = Call("editSkill", args, IF r.ok THEN "updated" ELSE "failed")
    /\ ops' = ops + 1
    /\ UNCHANGED <<localStorage, router, codec, race>>
    /\ seen' = NoSeen

\* a faulty deleteSkill call: the name is taken out of the Enabled Set too
DeleteSkillCall_Disables ==
    /\ ops < MaxOps
    /\ \E skills \in {getAllSkills(disk, localStorage)} :
       \E name \in Names :
       \E r \in {deleteSkill(disk, skills, name)} :
            /\ disk' = r.disk
            /\ localStorage' = IF r.ok THEN disableSkill(localStorage, name) ELSE localStorage
            /\ last' = Call("deleteSkill",
                            [name |-> name, path |-> PathOf(findSkill(skills, name))], r.ok)
    /\ ops' = ops + 1
    /\ UNCHANGED <<router, codec, race>>
    /\ seen' = NoSeen

\* deleteSkill(name)
DeleteSkillCall ==
    /\ ops < MaxOps
    /\ \E skills \in {getAllSkills(disk, localStorage)} :
       \E name \in Names :
       \E r \in {deleteSkill(disk, skills, name)} :
            /\ disk' = r.disk
            /\ last' = Call("deleteSkill",
                            [name |-> name, path |-> PathOf(findSkill(skills, name))], r.ok)
    /\ ops' = ops + 1
    /\ UNCHANGED <<localStorage, router, codec, race>>
    /\ seen' = NoSeen

\* findSkill(name)
FindSkillCall ==
    /\ \E skills \in {getAllSkills(disk, localStorage)} :
       \E name \in Names :
          seen' = [op |-> "findSkill", name |-> name, result |-> findSkill(skills, name)]
    /\ UNCHANGED <<disk, localStorage, last, ops, router, codec, race>>

\* listSkills(): getAllSkills
ListSkillsCall ==
    /\ seen' = [op |-> "listSkills", name |-> <<>>,
                result |-> getAllSkills(disk, localStorage)]
    /\ UNCHANGED <<disk, localStorage, last, ops, router, codec, race>>

Next ==
    \/ CreateSkillCall
    \/ UpdateSkillCall
    \/ EditToolCall
    \/ DeleteSkillCall
    \/ FindSkillCall
    \/ ListSkillsCall

Spec == Init /\ [][Next]_vars


(***************************************************************************)
(* Properties of the write and read operations (Spec).                     *)
(***************************************************************************)
\* the value a document gives to one of description, allowedTools, model
\* (its metadata entry) or content (its body)
DocField(text, key) ==
    IF key = KeyContent THEN Str(parseSkillMarkdown(text).content)
    ELSE IF parseSkillMarkdown(text).ok THEN Get(parseSkillMarkdown(text).metadata.m, key)
    ELSE Undefined

UpdatableFields == {KeyDescription, KeyAllowedTools, KeyModel, KeyContent}

\* C1: an update that went through (a direct updateSkill call, or one made
\* through the edit tool with only some optional inputs given) leaves every
\* one of description, allowed-tools, model and body that the caller did not
\* supply with the value it had in the document before the call.
C1_PreservesUnspecified ==
    (last.op \in {"updateSkill", "editSkill"} /\ last.result = "updated")
        => \A key \in UpdatableFields \ last.args.supplied :
              DocField(SkillMdText(disk, last.args.path), key)
                  = DocField(SkillMdText(last.pre.disk, last.args.path), key)

\* C3: whenever a listed skill has a directory name equal to the identifier,
\* findSkill returns a skill whose directory name equals the identifier (a
\* skill matched by its declared name only is returned only otherwise).
C3_DirectoryNameFirst ==
    (/\ seen.op = "findSkill"
     /\ \E i \in 1..Len(getAllSkills(disk, localStorage)) :
            getAllSkills(disk, localStorage)[i].name = seen.name)
        => seen.result.found /\ seen.result.skill.name = seen.name

\* the conditions under which the scan recognises an entry of a root
Qualifies(e) ==
    /\ e.isDir
    /\ e.skillMd.present
    /\ parseSkillMarkdown(e.skillMd.text).ok
    /\ parseSkillMarkdown(e.skillMd.text).metadata.k = "map"
    /\ Truthy(Get(parseSkillMarkdown(e.skillMd.text).metadata.m, KeyName))
    /\ Truthy(Get(parseSkillMarkdown(e.skillMd.text).metadata.m, KeyDescription))

Listed(skills, path) == \E i \in 1..Len(skills) : skills[i].path = path

ConfiguredRoots == {getSkillsFolderPaths(localStorage)[i] :
                        i \in 1..Len(getSkillsFolderPaths(localStorage))}

\* C8: every record listSkills returns comes from a directory of an existing
\* configured root whose SKILL.md parses and declares a non-empty name and
\* description, and every such directory has a record in the result.
C8_ListedIffQualifies ==
    seen.op = "listSkills"
        => /\ \A i \in 1..Len(seen.result) :
                /\ seen.result[i].path[1] \in ConfiguredRoots
                /\ \E j \in 1..Len(RootEntries(disk, seen.result[i].path[1])) :
                      /\ RootEntries(disk, seen.result[i].path[1])[j].name = seen.result[i].path[2]
                      /\ Qualifies(RootEntries(disk, seen.result[i].path[1])[j])
           /\ \A root \in ConfiguredRoots :
              \A j \in 1..Len(RootEntries(disk, root)) :
                 Qualifies(RootEntries(disk, root)[j])
                    => Listed(seen.result, <<root, RootEntries(disk, root)[j].name>>)

\* C9: a createSkill that follows a createSkill of the same name on the same
\* root writes its document without error, and findSkill of that name then
\* returns a record with the second call's description and body.
C9_SecondCreateWins ==
    (last.op = "createSkill" /\ last.args.again)
        => /\ last.result = "created"
           /\ (seen.op = "findSkill" /\ seen.name = last.args.name)
                 => /\ seen.result.found
                    /\ StrictEq(Get(seen.result.skill.metadata, KeyDescription),
                                Str(last.args.description))
                    /\ seen.result.skill.content = last.args.content

\* C10: deleteSkill returns false and changes no directory when findSkill
\* finds no skill; otherwise it returns true, removes the directory findSkill
\* resolved to and nothing else, and listSkills no longer has that record.
C10_DeleteSkill ==
    last.op = "deleteSkill"
        => IF last.args.path = <<>>
           THEN last.result = FALSE /\ disk = last.pre.disk
           ELSE /\ last.result = TRUE
                /\ \A root \in Paths :
                      /\ disk[root].exists = last.pre.disk[root].exists
                      /\ disk[root].entries =
                            SelectSeq(last.pre.disk[root].entries,
                                      LAMBDA e : <<root, e.name>> # last.args.path)
                /\ seen.op = "listSkills" => ~Listed(seen.result, last.args.path)

\* a deletion that removed one of two listed skills, and the list read after it
C10_Witness ==
    /\ last.op = "deleteSkill" /\ last.result = TRUE
    /\ Len(getAllSkills(last.pre.disk, last.pre.localStorage)) = 2
    /\ seen.op = "listSkills" /\ Len(seen.result) = 1

(***************************************************************************)
(* SpecEnable: enableSkill and disableSkill, called in any order on any    *)
(* of four names, from a store that holds no enabled list.                 *)
(***************************************************************************)
NameC == <<"c">>
NameNone == <<"n","o","n","e">>

InitEnable ==
    /\ disk = [EmptyDisk EXCEPT ![RootP] = Dir(<<SkillDir(NameA, PlainDoc(NameA, Desc1, Body1))>>)]
    /\ localStorage = [EmptyStorage EXCEPT !.SKILLS_FOLDER_KEY = TwoRoots]
    /\ last = NoCall
    /\ seen = NoSeen
    /\ ops = 0
    /\ router = IdleRouter
    /\ codec = NoCodec
    /\ race = NoRace

\* enableSkill(skillName)
EnableSkillCall ==
    /\ \E name \in {NameA, NameB, NameC, NameNone} :
          /\ localStorage' = enableSkill(localStorage, name)
          /\ last' = Call("enableSkill", [name |-> name], <<>>)
    /\ UNCHANGED <<disk, seen, ops, router, codec, race>>

\* disableSkill(skillName)
DisableSkillCall ==
    /\ \E name \in {NameA, NameB, NameC, NameNone} :
          /\ localStorage' = disableSkill(localStorage, name)
          /\ last' = Call("disableSkill", [name |-> name], <<>>)
    /\ UNCHANGED <<disk, seen, ops, router, codec, race>>

NextEnable ==
    \/ EnableSkillCall
    \/ DisableSkillCall

SpecEnable == InitEnable /\ [][NextEnable]_vars

NoDuplicates(seq) == \A i, j \in 1..Len(seq) : seq[i] = seq[j] => i = j
Elements(seq) == {seq[i] : i \in 1..Len(seq)}

\* C4: after any sequence of enable and disable calls from an empty Enabled
\* Set the stored list holds every name at most once; enabling an enabled
\* name leaves the stored list as it was, and disabling a name that is not
\* enabled leaves the set of enabled names as it was.
C4_EnabledSet ==
    /\ NoDuplicates(getEnabledSkills(localStorage))
    /\ (last.op = "enableSkill"
        /\ SeqIncludes(getEnabledSkills(last.pre.localStorage), last.args.name))
          => localStorage.ENABLED_SKILLS_KEY = last.pre.localStorage.ENABLED_SKILLS_KEY
    /\ (last.op = "disableSkill"
        /\ ~SeqIncludes(getEnabledSkills(last.pre.localStorage), last.args.name))
          => Elements(getEnabledSkills(localStorage))
                = Elements(getEnabledSkills(last.pre.localStorage))

\* a name enabled a second time while another name is enabled too
C4_Witness ==
    /\ last.op = "enableSkill"
    /\ SeqIncludes(getEnabledSkills(last.pre.localStorage), last.args.name)
    /\ Len(getEnabledSkills(localStorage)) = 2

(***************************************************************************)
(* SpecRouter: invocations of the use-skills tool.  An invocation reads    *)
(* the routing model and the enabled skills, returns a guidance text or    *)
(* asks the AI service; the service then answers or throws.  The texts the *)
(* tool returns are modelled by their kind and the values put into them.   *)
(***************************************************************************)
SetupGuidance  == [kind |-> "setup"]
EnableGuidance == [kind |-> "enable"]
Raised         == [kind |-> "raised"]

\* the numbered list of formatNoMatchMessage: declared name and description
formatNoMatchMessage(skills) ==
    [kind |-> "no-match", count |-> Len(skills),
     skillsList |-> Map(LAMBDA skill : <<ToStr(Get(skill.metadata, KeyName)),
                                         ToStr(Get(skill.metadata, KeyDescription))>>, skills)]

formatSkillResponse(skill) ==
    [kind |-> "skill", name |-> ToStr(Get(skill.metadata, KeyName)),
     purpose |-> ToStr(Get(skill.metadata, KeyDescription)), instructions |-> skill.content]

\* response.trim().replace(/^["']|["']$/g, ""): the quote at the start and
\* the quote at the end are removed
Normalize(response) ==
    With(Trim(response), LAMBDA t :
    With(IF t # <<>> /\ t[1] \in {DQ, SQ} THEN Tail(t) ELSE t, LAMBDA s :
        IF s # <<>> /\ s[Len(s)] \in {DQ, SQ} THEN SubSeq(s, 1, Len(s) - 1) ELSE s))

NONE == <<"N","O","N","E">>

\* selectSkillWithAI, given what AI.ask did: null when it threw or the
\* normalized response is NONE, otherwise the normalized response
selectSkillWithAI(ai) ==
    IF ai.threw THEN Null
    ELSE With(Normalize(ai.response), LAMBDA trimmedResponse :
            IF ToUpperCase(trimmedResponse) = NONE THEN Null ELSE Str(trimmedResponse))

\* what the tool returns for the name selectSkillWithAI returned
ToolResult(enabledSkills, selectedSkillName) ==
    IF ~Truthy(selectedSkillName) THEN formatNoMatchMessage(enabledSkills)
    ELSE With(FindIndex(enabledSkills, selectedSkillName.v), LAMBDA i :
            IF i # 0 THEN formatSkillResponse(enabledSkills[i])
            ELSE formatNoMatchMessage(enabledSkills))

\* a faulty try block: the rejection of AI.ask reaches the caller
RouteWith_Propagate(enabledSkills, ai) ==
    IF ai.threw THEN Raised ELSE ToolResult(enabledSkills, selectSkillWithAI(ai))
\* the try block of the tool, once AI.ask has answered or thrown
RouteWith(enabledSkills, ai) == ToolResult(enabledSkills, selectSkillWithAI(ai))

\* a faulty start: AI.ask is called with no enabled skill
RouterStart_AlwaysAsk(routingModel, enabledSkills) ==
    IF ~Truthy(routingModel)
    THEN [IdleRouter EXCEPT !.pc = "done", !.routingModel = routingModel,
                            !.output = SetupGuidance]
    ELSE [IdleRouter EXCEPT !.pc = "awaiting", !.routingModel = routingModel,
                            !.enabledSkills = enabledSkills, !.aiCalls = 1]
\* the tool up to its call of AI.ask: the locals, and the guidance returned
\* when there is no routing model or no enabled skill
RouterStart(routingModel, enabledSkills) ==
    IF ~Truthy(routingModel)
    THEN [IdleRouter EXCEPT !.pc = "done", !.routingModel = routingModel,
                            !.output = SetupGuidance]
    ELSE IF Len(enabledSkills) = 0
    THEN [IdleRouter EXCEPT !.pc = "done", !.routingModel = routingModel,
                            !.output = EnableGuidance]
    ELSE [IdleRouter EXCEPT !.pc = "awaiting", !.routingModel = routingModel,
                            !.enabledSkills = enabledSkills, !.aiCalls = 1]

RouterDisks ==
    { [EmptyDisk EXCEPT ![RootP] = Dir(<<SkillDir(NameA, PlainDoc(NameA, Desc1, Body1)),
                                         SkillDir(NameNone, PlainDoc(NameNone, Desc2, Body2))>>)],
      \* directory a declares the name b, and comes before directory b
      [EmptyDisk EXCEPT ![RootP] = Dir(<<SkillDir(NameA, PlainDoc(NameB, Desc1, Body1)),
                                         SkillDir(NameB, PlainDoc(NameB, Desc2, Body2))>>)],
      [EmptyDisk EXCEPT ![RootP] = Dir(<<SkillDir(NameA, PlainDoc(NameA, Desc1, Body1))>>),
                        ![RootQ] = Dir(<<SkillDir(NameB, FullDoc(NameC, Desc1, Body2))>>)] }

\* what AI.ask may answer
Responses ==
    { NameA, NameB, NameC, <<SP>> \o NameA \o <<LF>>, <<DQ>> \o NameA \o <<DQ>>,
      <<SQ>> \o NameB, NONE, NameNone, <<DQ,"N","o","n","e",DQ>>, <<"z">>, <<>> }

InitRouter ==
    /\ disk \in RouterDisks
    /\ \E enabled \in {NoItem} \cup
                        { Item(JsonStringifyArray(names)) :
                            names \in { <<>>, <<NameA>>, <<NameB>>, <<NameA, NameB>>,
                                        <<NameNone, NameA>>, <<NameC>> } },
          model \in {NoItem, Item(<<>>), Item(<<"m">>)} :
          localStorage = [SKILLS_FOLDER_KEY |-> TwoRoots, ENABLED_SKILLS_KEY |-> enabled,
                          ROUTING_MODEL_KEY |-> model]
    /\ last = NoCall
    /\ seen = NoSeen
    /\ ops = 0
    /\ router = IdleRouter
    /\ codec = NoCodec
    /\ race = NoRace

\* tool(input), up to the guidance it returns or its call of AI.ask
RouterInvoke ==
    /\ router.pc \in {"idle", "done"}
    /\ router' = RouterStart(getRoutingModel(localStorage),
                             getEnabledSkillObjects(disk, localStorage))
    /\ UNCHANGED <<disk, localStorage, last, seen, ops, codec, race>>

\* AI.ask resolves with a response
RouterReturn ==
    /\ router.pc = "awaiting"
    /\ \E response \in Responses :
       \E ai \in {[threw |-> FALSE, response |-> response]} :
          router' = [router EXCEPT !.pc = "done", !.ai = ai,
                                   !.output = RouteWith(router.enabledSkills, ai)]
    /\ UNCHANGED <<disk, localStorage, last, seen, ops, codec, race>>

\* AI.ask rejects
RouterThrow ==
    /\ router.pc = "awaiting"
    /\ \E ai \in {[threw |-> TRUE, response |-> <<>>]} :
          router' = [router EXCEPT !.pc = "done", !.ai = ai,
                                   !.output = RouteWith(router.enabledSkills, ai)]
    /\ UNCHANGED <<disk, localStorage, last, seen, ops, codec, race>>

NextRouter ==
    \/ RouterInvoke
    \/ RouterReturn
    \/ RouterThrow

SpecRouter == InitRouter /\ [][NextRouter]_vars

\* C5: an invocation calls the AI service at most once, and not at all when
\* no routing model is set (it returns the setup guidance) or when no skill
\* is enabled (it returns the guidance to enable skills).
C5_AtMostOneCall ==
    /\ router.aiCalls <= 1
    /\ (router.pc # "idle" /\ ~Truthy(getRoutingModel(localStorage)))
          => router.aiCalls = 0 /\ router.pc = "done" /\ router.output = SetupGuidance
    /\ (router.pc # "idle" /\ Truthy(getRoutingModel(localStorage))
        /\ getEnabledSkillObjects(disk, localStorage) = <<>>)
          => router.aiCalls = 0 /\ router.pc = "done" /\ router.output = EnableGuidance

\* an invocation that returned the guidance to enable skills
C5_Witness ==
    /\ router.pc = "done" /\ router.output = EnableGuidance
    /\ Truthy(getRoutingModel(localStorage))

\* C6: with a routing model set and a skill enabled, an exception from the
\* AI call ends the invocation with the no-match message that lists the
\* enabled skills; the invocation raises nothing.
C6_ExceptionIsNoMatch ==
    /\ router.output # Raised
    /\ (router.pc = "done" /\ router.ai.threw)
          => /\ Truthy(getRoutingModel(localStorage))
             /\ getEnabledSkillObjects(disk, localStorage) # <<>>
             /\ router.output = formatNoMatchMessage(getEnabledSkillObjects(disk, localStorage))

\* an invocation whose AI call threw, with two skills enabled
C6_Witness ==
    /\ router.pc = "done" /\ router.ai.threw
    /\ router.output.kind = "no-match" /\ router.output.count = 2

\* the enabled skills that the normalized response names, by directory name
\* or by declared name
Named(skills, name) ==
    {i \in 1..Len(skills) :
        skills[i].name = name \/ StrictEq(Get(skills[i].metadata, KeyName), Str(name))}

\* C7: when the AI call returned a response, the invocation is routed
\* exactly when the normalized response is not NONE (in any letter case)
\* and is the directory name or the declared name of an enabled skill; the
\* instructions returned are then those of an enabled skill, and otherwise
\* the invocation returns the no-match message.
C7_RoutedIffNamed ==
    (router.pc = "done" /\ router.aiCalls = 1 /\ ~router.ai.threw)
        => /\ router.output.kind = "skill"
                <=> /\ ToUpperCase(Normalize(router.ai.response)) # NONE
                    /\ Named(getEnabledSkillObjects(disk, localStorage),
                             Normalize(router.ai.response)) # {}
           /\ router.output.kind = "skill"
                => \E i \in Named(getEnabledSkillObjects(disk, localStorage),
                                  Normalize(router.ai.response)) :
                      /\ router.output =
                            formatSkillResponse(getEnabledSkillObjects(disk, localStorage)[i])
                      /\ isSkillEnabled(localStorage,
                                        getEnabledSkillObjects(disk, localStorage)[i].name)
           /\ router.output.kind # "skill"
                => router.output = formatNoMatchMessage(getEnabledSkillObjects(disk, localStorage))

\* a quoted response routed to an enabled skill while another skill is not enabled
C7_Witness ==
    /\ router.pc = "done" /\ router.output.kind = "skill"
    /\ router.ai.response # Normalize(router.ai.response)
    /\ Len(getAllSkills(disk, localStorage)) > Len(getEnabledSkillObjects(disk, localStorage))

(***************************************************************************)
(* SpecLibrary: createSkill and deleteSkill, at most MaxOps calls, and the *)
(* read calls findSkill, listSkills and getEnabledSkillObjects, on disks   *)
(* where a configured root is missing or cannot be read, with an Enabled   *)
(* Set stored beforehand and no call of enableSkill or disableSkill.       *)
(***************************************************************************)
InitLibrary ==
    /\ disk \in
         { \* the second configured root does not exist
           [EmptyDisk EXCEPT ![RootP] = Dir(<<SkillDir(NameA, PlainDoc(NameA, Desc1, Body1))>>)],
           \* the first configured root does not exist
           [EmptyDisk EXCEPT ![RootQ] = Dir(<<SkillDir(NameB, FullDoc(NameB, Desc1, Body1))>>)],
           \* the second configured root cannot be read
           [EmptyDisk EXCEPT ![RootP] = Dir(<<SkillDir(NameA, PlainDoc(NameA, Desc1, Body1))>>),
                             ![RootQ] = DirUnreadable],
           \* a skill in each root
           [EmptyDisk EXCEPT ![RootP] = Dir(<<SkillDir(NameA, PlainDoc(NameA, Desc1, Body1))>>),
                             ![RootQ] = Dir(<<SkillDir(NameB, FullDoc(NameB, Desc1, Body1))>>)] }
    /\ \E enabled \in {NoItem, Item(JsonStringifyArray(<<NameA>>)),
                       Item(JsonStringifyArray(<<NameB, NameA>>))} :
          localStorage = [EmptyStorage EXCEPT !.SKILLS_FOLDER_KEY = TwoRoots,
                                              !.ENABLED_SKILLS_KEY = enabled]
    /\ last = NoCall
    /\ seen = NoSeen
    /\ ops = 0
    /\ router = IdleRouter
    /\ codec = NoCodec
    /\ race = NoRace

\* getEnabledSkillObjects()
ListEnabledSkillsCall ==
    /\ seen' = [op |-> "listEnabledSkills", name |-> <<>>,
                result |-> getEnabledSkillObjects(disk, localStorage)]
    /\ UNCHANGED <<disk, localStorage, last, ops, router, codec, race>>

NextLibrary ==
    \/ CreateSkillCall
    \/ DeleteSkillCall
    \/ FindSkillCall
    \/ ListSkillsCall
    \/ ListEnabledSkillsCall

SpecLibrary == InitLibrary /\ [][NextLibrary]_vars

\* the store with the configured roots that exist on disk and no other
WithoutMissingRoots(d, ls) ==
    [ls EXCEPT !.SKILLS_FOLDER_KEY =
        Item(JsonStringifyFolders(SelectSeq(getSkillsFolders(ls),
                                            LAMBDA f : f.path \in DOMAIN d /\ d[f.path].exists)))]

\* some directory of a configured root is a skill the identifier names
SomeSkillNamed(name) ==
    \E root \in ConfiguredRoots :
    \E j \in 1..Len(RootEntries(disk, root)) :
        /\ Qualifies(RootEntries(disk, root)[j])
        /\ \/ RootEntries(disk, root)[j].name = name
           \/ StrictEq(Get(parseSkillMarkdown(RootEntries(disk, root)[j].skillMd.text).metadata.m,
                           KeyName), Str(name))

\* C11: listSkills returns a list in every case: with a configured root that
\* does not exist it returns what it returns for the other roots alone, and
\* it returns the empty list when reading a configured root raises; findSkill
\* returns null when no skill directory has the identifier as its directory
\* name or declared name.
C11_ReadsNeverRaise ==
    /\ seen.op = "listSkills"
        => /\ seen.result = getAllSkills(disk, WithoutMissingRoots(disk, localStorage))
           /\ (\E root \in ConfiguredRoots : ~disk[root].readable) => seen.result = <<>>
    /\ seen.op = "findSkill"
        => /\ seen.result.found => SomeSkillNamed(seen.name)
           /\ (\E root \in ConfiguredRoots : ~disk[root].readable) => ~seen.result.found

\* listSkills returned the skill of the second root while the first
\* configured root does not exist
C11_Witness ==
    /\ seen.op = "listSkills"
    /\ ~disk[RootP].exists
    /\ Len(seen.result) = 1 /\ seen.result[1].path = <<RootQ, NameB>>

InitRoots ==
    /\ disk = EmptyDisk
    /\ \E stored \in {NoItem, Item(RootP), TwoRoots} :
          localStorage = [EmptyStorage EXCEPT !.SKILLS_FOLDER_KEY = stored]
    /\ last = NoCall
    /\ seen = NoSeen
    /\ ops = 0
    /\ router = IdleRouter
    /\ codec = NoCodec
    /\ race = NoRace

\* addSkillsFolderPath(folderPath, label)
AddSkillsFolderPathCall ==
    /\ ops < MaxOps
    /\ \E folders \in {getSkillsFolders(localStorage)} :
       \E folderPath \in {RootP, RootQ}, label \in {Undefined, Str(<<"l">>)} :
          IF ~\E i \in 1..Len(folders) : folders[i].path = folderPath
          THEN /\ localStorage' = [localStorage EXCEPT !.SKILLS_FOLDER_KEY =
                     Item(JsonStringifyFolders(Append(folders, Folder(folderPath, label))))]
               /\ last' = Call("addSkillsFolderPath", [path |-> folderPath, label |-> label],
                               Append(folders, Folder(folderPath, label)))
          ELSE /\ localStorage' = localStorage
               /\ last' = Call("addSkillsFolderPath", [path |-> folderPath, label |-> label],
                               folders)
    /\ ops' = ops + 1
    /\ UNCHANGED <<disk, seen, router, codec, race>>

\* removeSkillsFolderPath(folderPath)
RemoveSkillsFolderPathCall ==
    /\ ops < MaxOps
    /\ \E folderPath \in {RootP, RootQ} :
       \E filtered \in {SelectSeq(getSkillsFolders(localStorage),
                                  LAMBDA f : f.path # folderPath)} :
          /\ localStorage' = [localStorage EXCEPT !.SKILLS_FOLDER_KEY =
                                  Item(JsonStringifyFolders(filtered))]
          /\ last' = Call("removeSkillsFolderPath", [path |-> folderPath], filtered)
    /\ ops' = ops + 1
    /\ UNCHANGED <<disk, seen, router, codec, race>>

\* updateSkillsFolderPath(oldPath, newPath, label)
UpdateSkillsFolderPathCall ==
    /\ ops < MaxOps
    /\ \E folders \in {getSkillsFolders(localStorage)} :
       \E oldPath \in {RootP, RootQ}, newPath \in {RootP, RootQ},
          label \in {Undefined, Str(<<"l">>)} :
       \E index \in {MinOrZero({i \in 1..Len(folders) : folders[i].path = oldPath})} :
          IF index = 0
          THEN /\ localStorage' = localStorage
               /\ last' = Call("updateSkillsFolderPath",
                               [path |-> oldPath, newPath |-> newPath, label |-> label,
                                returned |-> FALSE], folders)
          ELSE /\ localStorage' = [localStorage EXCEPT !.SKILLS_FOLDER_KEY =
                     Item(JsonStringifyFolders([folders EXCEPT ![index] = Folder(newPath, label)]))]
               /\ last' = Call("updateSkillsFolderPath",
                               [path |-> oldPath, newPath |-> newPath, label |-> label,
                                returned |-> TRUE],
                               [folders EXCEPT ![index] = Folder(newPath, label)])
    /\ ops' = ops + 1
    /\ UNCHANGED <<disk, seen, router, codec, race>>

\* setSkillsFolderPath(folderPath)
SetSkillsFolderPathCall ==
    /\ ops < MaxOps
    /\ \E folderPath \in {RootP, RootQ} :
          /\ localStorage' = [localStorage EXCEPT !.SKILLS_FOLDER_KEY =
                                  Item(JsonStringifyFolders(<<Folder(folderPath, Undefined)>>))]
          /\ last' = Call("setSkillsFolderPath", [path |-> folderPath],
                          <<Folder(folderPath, Undefined)>>)
    /\ ops' = ops + 1
    /\ UNCHANGED <<disk, seen, router, codec, race>>

NextRoots ==
    \/ AddSkillsFolderPathCall
    \/ RemoveSkillsFolderPathCall
    \/ UpdateSkillsFolderPathCall
    \/ SetSkillsFolderPathCall

SpecRoots == InitRoots /\ [][NextRoots]_vars

\* what listStorageRoots is to return for a list of configured roots: the
\* list, and the one default root when the list has no root
RootsOrDefault(configured) ==
    IF configured = <<>> THEN <<Folder(DefaultSkillsPath, Undefined)>> ELSE configured

\* C12: getSkillsFolders returns the two stored roots in their order for the
\* stored list, the one root of the stored path for a bare path string, the
\* one default root when nothing is stored, and after every add, remove,
\* update or set call the roots that call left configured, in order, or the
\* one default root when it left none.
C12_StorageRoots ==
    /\ (last.op = "none" /\ localStorage.SKILLS_FOLDER_KEY = TwoRoots)
          => getSkillsFolders(localStorage)
                = <<Folder(RootP, Undefined), Folder(RootQ, Str(<<"q">>))>>
    /\ (last.op = "none" /\ localStorage.SKILLS_FOLDER_KEY = Item(RootP))
          => getSkillsFolders(localStorage) = <<Folder(RootP, Undefined)>>
    /\ (last.op = "none" /\ localStorage.SKILLS_FOLDER_KEY = NoItem)
          => getSkillsFolders(localStorage) = <<Folder(DefaultSkillsPath, Undefined)>>
    /\ last.op \in {"addSkillsFolderPath", "removeSkillsFolderPath",
                    "updateSkillsFolderPath", "setSkillsFolderPath"}
          => getSkillsFolders(localStorage) = RootsOrDefault(last.result)

(***************************************************************************)
(* SpecRace: one updateSkill and one deleteSkill of the same name invoked  *)
(* together.  Each call suspends in the await of its findSkill (the read   *)
(* of LocalStorage); when it resumes, getAllSkills scans the disk and      *)
(* findSkill picks the skill, in one synchronous block (the lookup step);  *)
(* the call then continues in a later turn with its synchronous filesystem *)
(* block (the write step).  The steps of the two calls interleave in any   *)
(* order that keeps each call's lookup before its write.                   *)
(***************************************************************************)
InitRace ==
    /\ disk \in InitDisks
    /\ localStorage = [EmptyStorage EXCEPT !.SKILLS_FOLDER_KEY = TwoRoots]
    /\ last = NoCall
    /\ seen = NoSeen
    /\ ops = 0
    /\ router = IdleRouter
    /\ codec = NoCodec
    /\ \E name \in Names, updates \in UpdateInputs :
          race = [NoRace EXCEPT !.name = name, !.updates = updates,
                                !.update.pc = "invoked", !.delete.pc = "invoked"]

\* updateSkill resumes from await findSkill(name)
UpdateLookup ==
    /\ race.update.pc = "invoked"
    /\ \E skills \in {getAllSkills(disk, localStorage)} :
          race' = [race EXCEPT !.update.pc = "found", !.update.skills = skills,
                               !.update.path = PathOf(findSkill(skills, race.name)),
                               !.steps = Append(@, "updateLookup")]
    /\ UNCHANGED <<disk, localStorage, last, seen, ops, router, codec>>

\* updateSkill from if (!skill) to its return: readFileSync raises when the
\* document is no longer there
UpdateWrite ==
    /\ race.update.pc = "found"
    /\ IF race.update.path = <<>>
       THEN /\ disk' = disk
            /\ race' = [race EXCEPT !.update.pc = "done", !.update.result = "null",
                                    !.steps = Append(@, "updateWrite")]
       ELSE IF \/ PathIndex(disk, race.update.path) = 0
               \/ ~RootEntries(disk, race.update.path[1])[
                       PathIndex(disk, race.update.path)].skillMd.present
       THEN /\ disk' = disk
            /\ race' = [race EXCEPT !.update.pc = "done", !.update.result = "raised",
                                    !.steps = Append(@, "updateWrite")]
       ELSE \E r \in {updateSkill(disk, race.update.skills, race.name, race.updates)} :
            /\ disk' = r.disk
            /\ race' = [race EXCEPT !.update.pc = "done",
                                    !.update.result = IF r.ok THEN "updated" ELSE "null",
                                    !.update.document = SkillMdText(r.disk, race.update.path),
                                    !.steps = Append(@, "updateWrite")]
    /\ UNCHANGED <<localStorage, last, seen, ops, router, codec>>

\* deleteSkill resumes from await findSkill(name)
DeleteLookup ==
    /\ race.delete.pc = "invoked"
    /\ \E skills \in {getAllSkills(disk, localStorage)} :
          race' = [race EXCEPT !.delete.pc = "found", !.delete.skills = skills,
                               !.delete.path = PathOf(findSkill(skills, race.name)),
                               !.steps = Append(@, "deleteLookup")]
    /\ UNCHANGED <<disk, localStorage, last, seen, ops, router, codec>>

\* deleteSkill from if (!skill) to its return
DeleteRemove ==
    /\ race.delete.pc = "found"
    /\ \E r \in {deleteSkill(disk, race.delete.skills, race.name)} :
          /\ disk' = r.disk
          /\ race' = [race EXCEPT !.delete.pc = "done", !.delete.result = r.ok,
                                  !.steps = Append(@, "deleteRemove")]
    /\ UNCHANGED <<localStorage, last, seen, ops, router, codec>>

NextRace ==
    \/ UpdateLookup
    \/ UpdateWrite
    \/ DeleteLookup
    \/ DeleteRemove

SpecRace == InitRace /\ [][NextRace]_vars

\* the steps that wrote to the filesystem: the write step of an updateSkill
\* that rewrote the document, the write step of a deleteSkill that removed
\* the directory
Wrote(step) ==
    \/ step = "updateWrite" /\ race.update.result = "updated"
    \/ step = "deleteRemove" /\ race.delete.result = TRUE

\* the last step that wrote, "none" when neither call wrote
LastWrite ==
    IF \E i \in 1..Len(race.steps) : Wrote(race.steps[i])
    THEN race.steps[CHOOSE i \in 1..Len(race.steps) :
                        /\ Wrote(race.steps[i])
                        /\ \A j \in 1..Len(race.steps) : Wrote(race.steps[j]) => j <= i]
    ELSE "none"

\* C13: when an updateSkill and a deleteSkill of the same name have both
\* finished, in whatever order their lookups and writes were taken, the
\* directory is as the call that wrote last left it: gone when that was the
\* deleteSkill, there with the document the updateSkill wrote when that was
\* the updateSkill.
C13_LastWriteWins ==
    (race.update.pc = "done" /\ race.delete.pc = "done")
        => /\ LastWrite = "deleteRemove" => PathIndex(disk, race.delete.path) = 0
           /\ LastWrite = "updateWrite"
                 => /\ PathIndex(disk, race.update.path) # 0
                    /\ SkillMdText(disk, race.update.path) = race.update.document

\* both calls looked the skill up before either wrote, the updateSkill
\* rewrote the document and the deleteSkill then removed the directory
C13_Witness ==
    /\ race.steps = <<"updateLookup", "deleteLookup", "updateWrite", "deleteRemove">>
    /\ race.update.result = "updated" /\ race.delete.result = TRUE
    /\ race.update.path = race.delete.path
====
